---- MODULE Spec2Model ----
(***************************************************************************)
(* The asynchronous cart-fill job subsystem of server/src/server.ts:      *)
(* the in-memory progress store (fillCartProgressStore,                   *)
(* updateFillCartProgress, getFillCartProgress), the orchestrator         *)
(* fillShoppingCart, and the two tool handlers fill-cart and              *)
(* check_fill_cart_progress.                                              *)
(*                                                                         *)
(* Node runs the code between two awaits atomically, so every action is   *)
(* one such segment: the settlement of the collaborator call a job is     *)
(* suspended on, followed by everything the orchestrator does up to the   *)
(* next await (progress updates included).                                *)
(*                                                                         *)
(* Spec follows one job with the polling tool and the clock; SpecJobs     *)
(* runs MaxJobs orchestrators concurrently on the shared store, with      *)
(* short product lists, the HTTP progress endpoint and the clock;         *)
(* SpecSettling is Spec with every collaborator call settling; SpecWidget *)
(* is the polling effect of the show-plan widget (widgets/show-plan.tsx). *)
(***************************************************************************)
EXTENDS Integers, Sequences, FiniteSets, TLC

\* ------------------------------------------------------------------ bounds
MaxJobs == 2
MaxLen == 2
MaxClock == 1
\* the longest product list of a job that runs next to other jobs
MaxLenJobs == 1
\* the polls a widget starts
MaxPolls == 3

\* ------------------------------------------------------- program constants
FILL_CART_PROGRESS_TTL_MS == 3600000

\* show-plan widget: the delay before the first poll of a job, and the delay
\* before every later one
POLL_INITIAL_DELAY_MS == 2000
POLL_RETRY_DELAY_MS == 1000

NULL == "null"

JobIds == 1..MaxJobs
\* a job id no fill-cart call ever returned (randomUUID never produces it)
UnknownJobId == 0

Milk == [name |-> "Milk", quantity |-> "1L"]
Eggs == [name |-> "Eggs", quantity |-> "6"]
Products == {Milk, Eggs}
ProductLists == UNION {[1..n -> Products] : n \in 0..MaxLen}

\* messages of the errors the collaborators raise (error.message)
SessionErrorMessage == "createSession failed"
TaskErrorMessage == "task failed"

\* the url of the last recorded step of the cart task
CartPageUrl == "https://www.carrefour.fr/mon-panier"

VARIABLES
  store,           \* fillCartProgressStore: jobId -> FillCartProgressState
  now,             \* Date.now()
  pc,              \* per job: the await its orchestrator is suspended on
  products,        \* per job: the products argument of fillShoppingCart
  i,               \* per job: the loop index
  addedProducts,   \* per job: the local array addedProducts
  failedProducts,  \* per job: the local array failedProducts
  translations,    \* per job: the result of translateToFrench for product i
  session,         \* per job: session.id, NoSession before createSession returned
  calls,           \* per job: the collaborator calls issued so far, with results
  createdAt,       \* per job: the const now of the fill-cart handler (line 694)
  dropped,         \* per job: some update of it returned at line 399 (no entry)
  lastRead,        \* per requested id: payload of the last check_fill_cart_progress
  fillCartStatus,  \* the widget's state: idle, shopping, done or error
  fillCartJobId,   \* the widget's job id, NoJobId when null
  starting,        \* handleLooksPerfect is awaiting the fill-cart call
  pollTimeout,     \* delay of the pending timer of the polling effect, 0: none
  polling,         \* the polling effect awaits check_fill_cart_progress
  stalePolls,      \* polls in flight whose effect run was cancelled
  polls,           \* polls the widget has started
  observed         \* what the last poll taken into account observed

widgetVars == <<fillCartStatus, fillCartJobId, starting, pollTimeout, polling,
                stalePolls, polls, observed>>
orchVars == <<pc, products, i, addedProducts, failedProducts, translations, session,
              calls, createdAt, dropped>>
vars == <<store, now, pc, products, i, addedProducts, failedProducts, translations,
          session, calls, createdAt, dropped, lastRead, widgetVars>>

\* ------------------------------------------------------------------ store
Fields == {"status", "added_products", "failed_products", "cart_url", "error",
           "current_product", "updatedAt"}

\* a merge that appends a passed array to the stored one
MergeAppending(existing, update, updatedAt) ==
  [f \in Fields |->
     IF f = "updatedAt" THEN updatedAt
     ELSE IF f \in DOMAIN update
       THEN IF f \in {"added_products", "failed_products"}
              THEN existing[f] \o update[f] ELSE update[f]
     ELSE existing[f]]

\* { ...existing, ...update, updatedAt }
Merge(existing, update, updatedAt) ==
  [f \in Fields |->
     IF f = "updatedAt" THEN updatedAt
     ELSE IF f \in DOMAIN update THEN update[f]
     ELSE existing[f]]

\* fillCartProgressStore.set(jobId, entry)
MapSet(st, jobId, entry) ==
  [k \in DOMAIN st \cup {jobId} |-> IF k = jobId THEN entry ELSE st[k]]

\* fillCartProgressStore.delete(jobId)
MapDelete(st, jobId) == [k \in DOMAIN st \ {jobId} |-> st[k]]

\* the entry fill-cart inserts
InitialEntry(t) ==
  [status |-> "started", added_products |-> <<>>, failed_products |-> <<>>,
   cart_url |-> NULL, error |-> NULL, current_product |-> NULL, updatedAt |-> t]

\* an update that inserts a fresh entry when the job has none
updateFillCartProgressUpserting(st, jobId, update, t) ==
  MapSet(st, jobId,
         Merge(IF jobId \in DOMAIN st THEN st[jobId] ELSE InitialEntry(t), update, t))

\* the store after updateFillCartProgress(jobId, update) at time t
updateFillCartProgress(st, jobId, update, t) ==
  IF jobId \notin DOMAIN st THEN st
  ELSE MapSet(st, jobId, Merge(st[jobId], update, t))

\* an entry that expires when the retention window is reached, not exceeded
ExpiredAtWindow(entry, t) == t - entry.updatedAt >= FILL_CART_PROGRESS_TTL_MS

\* the test of line 407
Expired(entry, t) == t - entry.updatedAt > FILL_CART_PROGRESS_TTL_MS

\* a lookup that returns whatever entry the store holds, however old
getFoundIgnoringExpiry(st, jobId, t) == jobId \in DOMAIN st

\* getFillCartProgress(jobId) at time t: whether it returns an entry
getFound(st, jobId, t) == jobId \in DOMAIN st /\ ~Expired(st[jobId], t)

\* a read that refreshes updatedAt of the entry it returns (sliding expiry)
getStoreTouching(st, jobId, t) ==
  IF jobId \notin DOMAIN st THEN st
  ELSE IF Expired(st[jobId], t) THEN MapDelete(st, jobId)
  ELSE MapSet(st, jobId, [st[jobId] EXCEPT !.updatedAt = t])

\* a read that reports an expired entry as missing but leaves it in the store
getStoreKeepingExpired(st, jobId, t) == st

\* a read that consumes the entry it returns
getStoreConsuming(st, jobId, t) == MapDelete(st, jobId)

\* getFillCartProgress(jobId) at time t: the store it leaves
getStore(st, jobId, t) ==
  IF jobId \in DOMAIN st /\ Expired(st[jobId], t) THEN MapDelete(st, jobId) ELSE st

\* ------------------------------------------------------- collaborator calls
\* a call to a collaborator: op is the method, task the automation task it
\* belongs to, index the product it is for (-1: none), sessionId the session
\* it is bound to (NoSession: none), result "pending" until the call settles
NoSession == 0

\* a task bound to the session created last by any job (a session kept in a
\* variable the jobs share)
CallOnSharedSession(op, task, index, sessionId) ==
  [op |-> op, task |-> task, index |-> index,
   sessionId |-> IF sessionId = NoSession THEN NoSession
                 ELSE Cardinality({j \in JobIds : session[j] # NoSession} \cup {0}),
   result |-> "pending"]

Call(op, task, index, sessionId) ==
  [op |-> op, task |-> task, index |-> index, sessionId |-> sessionId,
   result |-> "pending"]

Issue(log, call) == Append(log, call)

\* the pending call (always the last one issued) settles
Settle(log, result) == [log EXCEPT ![Len(log)].result = result]

\* ----------------------------------------------------------------- handlers
Created == {j \in JobIds : pc[j] # "idle"}

\* randomUUID(): an id never returned before
FreshJobId == Cardinality(Created) + 1

\* fill-cart awaiting the session before it returns
FillCartAwaitingSession(ps) ==
  /\ FreshJobId \in JobIds
  /\ LET jobId == FreshJobId IN
       /\ store' = MapSet(store, jobId, InitialEntry(now))
       /\ createdAt' = [createdAt EXCEPT ![jobId] = now]
       /\ pc' = [pc EXCEPT ![jobId] = "setupCreateTask"]
       /\ products' = [products EXCEPT ![jobId] = ps]
       /\ session' = [session EXCEPT ![jobId] = jobId]
       /\ calls' = [calls EXCEPT ![jobId] =
                      <<[Call("createSession", NULL, -1, NoSession)
                           EXCEPT !.result = "returned"],
                        Call("createTask", "setup", -1, jobId)>>]
  /\ UNCHANGED <<now, i, addedProducts, failedProducts, translations, dropped,
                 lastRead, widgetVars>>

\* fill-cart starting the orchestrator without inserting the entry
FillCartWithoutEntry(ps) ==
  /\ FreshJobId \in JobIds
  /\ LET jobId == FreshJobId IN
       /\ createdAt' = [createdAt EXCEPT ![jobId] = now]
       /\ pc' = [pc EXCEPT ![jobId] = "createSession"]
       /\ products' = [products EXCEPT ![jobId] = ps]
       /\ calls' = [calls EXCEPT ![jobId] = <<Call("createSession", NULL, -1, NoSession)>>]
  /\ UNCHANGED <<store, now, i, addedProducts, failedProducts, translations, session,
                 dropped, lastRead, widgetVars>>

\* fill-cart: insert the entry, start fillShoppingCart (which runs up to its
\* first await, the createSession call) and return {jobId, status: "started"}
FillCart(ps) ==
  /\ FreshJobId \in JobIds
  /\ LET jobId == FreshJobId IN
       /\ store' = MapSet(store, jobId, InitialEntry(now))
       /\ createdAt' = [createdAt EXCEPT ![jobId] = now]
       /\ pc' = [pc EXCEPT ![jobId] = "createSession"]
       /\ products' = [products EXCEPT ![jobId] = ps]
       /\ calls' = [calls EXCEPT ![jobId] = <<Call("createSession", NULL, -1, NoSession)>>]
  /\ UNCHANGED <<now, i, addedProducts, failedProducts, translations, session,
                 dropped, lastRead, widgetVars>>

NotFoundPayload ==
  [status |-> "not_found", error |-> "Job not found or expired",
   added_products |-> <<>>, failed_products |-> <<>>,
   cart_url |-> NULL, current_product |-> NULL]

ProgressPayload(progress) ==
  [status |-> progress.status, added_products |-> progress.added_products,
   failed_products |-> progress.failed_products, cart_url |-> progress.cart_url,
   error |-> progress.error, current_product |-> progress.current_product]

\* structuredContent of check_fill_cart_progress({jobId}) at time t
CheckPayload(st, jobId, t) ==
  IF getFound(st, jobId, t) THEN ProgressPayload(st[jobId]) ELSE NotFoundPayload

\* ids a client can ask about: the ones fill-cart returned, and one it never did
KnownIds == Created \cup {UnknownJobId}

CheckFillCartProgress(jobId) ==
  /\ jobId \in KnownIds
  /\ lastRead' = MapSet(lastRead, jobId, CheckPayload(store, jobId, now))
  /\ store' = getStore(store, jobId, now)
  /\ UNCHANGED <<now, orchVars, widgetVars>>

\* a body that leaves the job's error out
HttpProgressBodyWithoutError(progress) ==
  [status |-> progress.status, added_products |-> progress.added_products,
   failed_products |-> progress.failed_products, cart_url |-> progress.cart_url,
   error |-> NULL, current_product |-> progress.current_product]

\* the body GET /api/fill-cart/progress/:jobId sends with status 200
HttpProgressBody(progress) ==
  [status |-> progress.status, added_products |-> progress.added_products,
   failed_products |-> progress.failed_products, cart_url |-> progress.cart_url,
   error |-> progress.error, current_product |-> progress.current_product]

\* the response of GET /api/fill-cart/progress/:jobId at time t
HttpResponse(st, jobId, t) ==
  IF getFound(st, jobId, t)
    THEN [code |-> 200, body |-> HttpProgressBody(st[jobId])]
    ELSE [code |-> 404, body |-> [error |-> "Job not found or expired"]]

\* GET /api/fill-cart/progress/:jobId: it answers HttpResponse(store, jobId,
\* now); its only effect is the one of getFillCartProgress
HttpGetProgress(jobId) ==
  /\ jobId \in KnownIds
  /\ store' = getStore(store, jobId, now)
  /\ UNCHANGED <<now, orchVars, lastRead, widgetVars>>

\* the instants the clock is observed at: whole retention windows since the
\* start, and the millisecond after each
ClockValues ==
  {h * FILL_CART_PROGRESS_TTL_MS + ms : h \in 0..MaxClock, ms \in {0, 1}}

\* the clock advances by a millisecond or by the whole retention window; time
\* is counted from the first fill-cart call (the code only uses differences)
Tick(d) ==
  /\ now + d \in ClockValues
  /\ Created # {}
  /\ now' = now + d
  /\ UNCHANGED <<store, orchVars, lastRead, widgetVars>>

\* ------------------------------------------------------------- orchestrator
\* a callback bound to the job created last instead of its own
onProgressOfLatestJob(st, jobId, update) ==
  updateFillCartProgress(st, Cardinality(Created), update, now)

\* onProgress of the job: (update) => updateFillCartProgress(jobId, update)
onProgress(st, jobId, update) == updateFillCartProgress(st, jobId, update, now)

\* dropped after an update of job j: line 399 returns when the job has no entry
Publishing(j) == dropped' = [dropped EXCEPT ![j] = @ \/ j \notin DOMAIN store]

\* a catch that returns {success: false} without publishing the failure
OuterCatchSilent(j, message) ==
  /\ pc' = [pc EXCEPT ![j] = "done"]
  /\ calls' = [calls EXCEPT ![j] = Settle(@, "raised")]
  /\ UNCHANGED <<store, now, products, i, addedProducts, failedProducts, translations,
                 session, createdAt, dropped, lastRead, widgetVars>>

\* a catch that publishes the failure without its reason
OuterCatchWithoutMessage(j, message) ==
  /\ store' = onProgress(store, j, [status |-> "failed", current_product |-> NULL])
  /\ pc' = [pc EXCEPT ![j] = "done"]
  /\ calls' = [calls EXCEPT ![j] = Settle(@, "raised")]
  /\ UNCHANGED <<now, products, i, addedProducts, failedProducts, translations,
                 session, createdAt, lastRead, widgetVars>>
  /\ Publishing(j)

\* the catch of lines 591-601, entered by the pending call raising
OuterCatch(j, message) ==
  /\ store' = onProgress(store, j,
                [status |-> "failed", error |-> message, current_product |-> NULL])
  /\ pc' = [pc EXCEPT ![j] = "done"]
  /\ calls' = [calls EXCEPT ![j] = Settle(@, "raised")]
  /\ UNCHANGED <<now, products, i, addedProducts, failedProducts, translations,
                 session, createdAt, lastRead, widgetVars>>
  /\ Publishing(j)

\* the id of the session createSession returns: one no job holds yet
NewSessionId == Cardinality({j \in JobIds : session[j] # NoSession}) + 1

\* client.sessions.createSession settles (line 490); when it returns, the
\* arrays are declared and the setup task's createTask is called (line 507)
CreateSession(j) ==
  /\ pc[j] = "createSession"
  /\ \/ /\ session' = [session EXCEPT ![j] = NewSessionId]
        /\ addedProducts' = [addedProducts EXCEPT ![j] = <<>>]
        /\ failedProducts' = [failedProducts EXCEPT ![j] = <<>>]
        /\ pc' = [pc EXCEPT ![j] = "setupCreateTask"]
        /\ calls' = [calls EXCEPT ![j] =
                       Issue(Settle(@, "returned"),
                             Call("createTask", "setup", -1, NewSessionId))]
        /\ UNCHANGED <<store, now, products, i, translations, createdAt, dropped, lastRead, widgetVars>>
     \/ OuterCatch(j, SessionErrorMessage)

\* createTask of the setup task settles (line 507); when it returns,
\* initialTask.complete() is called (line 513)
SetupCreateTask(j) ==
  /\ pc[j] = "setupCreateTask"
  /\ \/ /\ pc' = [pc EXCEPT ![j] = "setupComplete"]
        /\ calls' = [calls EXCEPT ![j] =
                       Issue(Settle(@, "returned"),
                             Call("complete", "setup", -1, session[j]))]
        /\ UNCHANGED <<store, now, products, i, addedProducts, failedProducts,
                       translations, session, createdAt, dropped, lastRead, widgetVars>>
     \/ OuterCatch(j, TaskErrorMessage)

\* a loop whose first update of an iteration names the product only, not
\* the status
LoopTopWithoutStatus(j, k, st, log) ==
  /\ i' = [i EXCEPT ![j] = k]
  /\ IF k < Len(products[j])
       THEN /\ store' = onProgress(st, j, [current_product |-> products[j][k + 1].name])
            /\ pc' = [pc EXCEPT ![j] = "translate"]
            /\ calls' = [calls EXCEPT ![j] =
                           Issue(log, Call("translate", "product", k, NoSession))]
       ELSE /\ store' = st
            /\ pc' = [pc EXCEPT ![j] = "cartCreateTask"]
            /\ calls' = [calls EXCEPT ![j] =
                           Issue(log, Call("createTask", "cart", -1, session[j]))]

\* a loop that, given no product at all, publishes completed at once and
\* never opens the cart
LoopTopSkippingEmptyCart(j, k, st, log) ==
  /\ i' = [i EXCEPT ![j] = k]
  /\ IF k < Len(products[j])
       THEN /\ store' = onProgress(st, j, [status |-> "running",
                                            current_product |-> products[j][k + 1].name])
            /\ pc' = [pc EXCEPT ![j] = "translate"]
            /\ calls' = [calls EXCEPT ![j] =
                           Issue(log, Call("translate", "product", k, NoSession))]
       ELSE IF Len(products[j]) = 0
         THEN /\ store' = onProgress(st, j,
                             [status |-> "completed", added_products |-> <<>>,
                              failed_products |-> <<>>, cart_url |-> NULL,
                              current_product |-> NULL])
              /\ pc' = [pc EXCEPT ![j] = "done"]
              /\ calls' = [calls EXCEPT ![j] = log]
         ELSE /\ store' = st
              /\ pc' = [pc EXCEPT ![j] = "cartCreateTask"]
              /\ calls' = [calls EXCEPT ![j] =
                             Issue(log, Call("createTask", "cart", -1, session[j]))]

\* the top of the for loop with index k, on store st and call log log: the
\* iteration's first segment (lines 516-521, up to the translation request)
\* or, past the last product, the cart task's createTask (lines 559-566)
LoopTop(j, k, st, log) ==
  /\ i' = [i EXCEPT ![j] = k]
  /\ IF k < Len(products[j])
       THEN /\ store' = onProgress(st, j, [status |-> "running",
                                            current_product |-> products[j][k + 1].name])
            /\ pc' = [pc EXCEPT ![j] = "translate"]
            /\ calls' = [calls EXCEPT ![j] =
                           Issue(log, Call("translate", "product", k, NoSession))]
       ELSE /\ store' = st
            /\ pc' = [pc EXCEPT ![j] = "cartCreateTask"]
            /\ calls' = [calls EXCEPT ![j] =
                           Issue(log, Call("createTask", "cart", -1, session[j]))]

\* a setup task completed in the background: the loop starts while
\* initialTask.complete() is still running
SetupCompleteNotAwaited(j) ==
  /\ pc[j] = "setupComplete"
  /\ LoopTop(j, 0, store, calls[j])
  /\ UNCHANGED <<now, products, addedProducts, failedProducts, translations,
                 session, createdAt, lastRead, widgetVars>>
  /\ IF Len(products[j]) > 0 THEN Publishing(j) ELSE UNCHANGED dropped

\* initialTask.complete() settles (line 513); when it returns the loop starts
SetupComplete(j) ==
  /\ pc[j] = "setupComplete"
  /\ \/ /\ LoopTop(j, 0, store, Settle(calls[j], "returned"))
        /\ UNCHANGED <<now, products, addedProducts, failedProducts, translations,
                       session, createdAt, lastRead, widgetVars>>
        /\ IF Len(products[j]) > 0 THEN Publishing(j) ELSE UNCHANGED dropped
     \/ OuterCatch(j, TaskErrorMessage)

\* translateToFrench(productName): the model's translations, or [productName]
\* when the content is empty or holds none ("fallback") or the call raised
translateToFrench(productName, outcome) ==
  IF outcome = "translated" THEN <<"fr " \o productName>> ELSE <<productName>>

\* the name of the product being processed, not of the one after it
nextProductIsCurrent(j) == products[j][i[j] + 1].name

\* products[i + 1]?.name ?? null (line 517)
nextProduct(j) ==
  IF i[j] + 1 < Len(products[j]) THEN products[j][i[j] + 2].name ELSE NULL

\* a success update carrying only the product just added, not the whole array
ProductAddedPublishingDelta(j) ==
  LET added == Append(addedProducts[j], products[j][i[j] + 1])
  IN /\ addedProducts' = [addedProducts EXCEPT ![j] = added]
     /\ LoopTop(j, i[j] + 1,
                onProgress(store, j, [added_products |-> <<products[j][i[j] + 1]>>,
                                      failed_products |-> failedProducts[j],
                                      current_product |-> nextProduct(j)]),
                Settle(calls[j], "returned"))
     /\ translations' = [translations EXCEPT ![j] = <<>>]
     /\ UNCHANGED <<now, products, failedProducts, session, createdAt, lastRead, widgetVars>>
     /\ Publishing(j)

\* task.complete() returned: lines 541-546, then the next turn of the loop
ProductAdded(j) ==
  LET added == Append(addedProducts[j], products[j][i[j] + 1])
  IN /\ addedProducts' = [addedProducts EXCEPT ![j] = added]
     /\ LoopTop(j, i[j] + 1,
                onProgress(store, j, [added_products |-> added,
                                      failed_products |-> failedProducts[j],
                                      current_product |-> nextProduct(j)]),
                Settle(calls[j], "returned"))
     /\ translations' = [translations EXCEPT ![j] = <<>>]
     /\ UNCHANGED <<now, products, failedProducts, session, createdAt, lastRead, widgetVars>>
     /\ Publishing(j)

\* a per-product failure that reaches the outer catch (no inner try)
ProductFailedFatal(j) == OuterCatch(j, TaskErrorMessage)

\* the product pushed to addedProducts before its task settled, so that a
\* raising task leaves it in both arrays
ProductFailedAfterPush(j) ==
  LET added == Append(addedProducts[j], products[j][i[j] + 1])
      failed == Append(failedProducts[j], products[j][i[j] + 1])
  IN /\ addedProducts' = [addedProducts EXCEPT ![j] = added]
     /\ failedProducts' = [failedProducts EXCEPT ![j] = failed]
     /\ LoopTop(j, i[j] + 1,
                onProgress(store, j, [added_products |-> added,
                                      failed_products |-> failed,
                                      current_product |-> nextProduct(j)]),
                Settle(calls[j], "raised"))
     /\ translations' = [translations EXCEPT ![j] = <<>>]
     /\ UNCHANGED <<now, products, session, createdAt, lastRead, widgetVars>>
     /\ Publishing(j)

\* a per-product failure no catch handles: the orchestrator dies with its
\* promise rejected and publishes nothing more
ProductFailedUnhandled(j) ==
  /\ pc' = [pc EXCEPT ![j] = "done"]
  /\ calls' = [calls EXCEPT ![j] = Settle(@, "raised")]
  /\ UNCHANGED <<store, now, products, i, addedProducts, failedProducts, translations,
                 session, createdAt, dropped, lastRead, widgetVars>>

\* createTask or task.complete() raised: lines 547-555, then the next turn
ProductFailed(j) ==
  LET failed == Append(failedProducts[j], products[j][i[j] + 1])
  IN /\ failedProducts' = [failedProducts EXCEPT ![j] = failed]
     /\ LoopTop(j, i[j] + 1,
                onProgress(store, j, [added_products |-> addedProducts[j],
                                      failed_products |-> failed,
                                      current_product |-> nextProduct(j)]),
                Settle(calls[j], "raised"))
     /\ translations' = [translations EXCEPT ![j] = <<>>]
     /\ UNCHANGED <<now, products, addedProducts, session, createdAt, lastRead, widgetVars>>
     /\ Publishing(j)

\* a translation failure that fails the item instead of falling back
TranslateFatalToItem(j, outcome) ==
  /\ pc[j] = "translate"
  /\ IF outcome = "raised"
       THEN ProductFailed(j)
       ELSE /\ translations' = [translations EXCEPT
                  ![j] = translateToFrench(products[j][i[j] + 1].name, outcome)]
            /\ pc' = [pc EXCEPT ![j] = "createTask"]
            /\ calls' = [calls EXCEPT ![j] =
                           Issue(Settle(@, "returned"),
                                 Call("createTask", "product", i[j], session[j]))]
            /\ UNCHANGED <<store, now, products, i, addedProducts, failedProducts,
                           session, createdAt, dropped, lastRead, widgetVars>>

\* the translation request settles (line 521); createTask of the product's
\* task is called (line 530)
Translate(j, outcome) ==
  /\ pc[j] = "translate"
  /\ translations' = [translations EXCEPT
                        ![j] = translateToFrench(products[j][i[j] + 1].name, outcome)]
  /\ pc' = [pc EXCEPT ![j] = "createTask"]
  /\ calls' = [calls EXCEPT ![j] =
                 Issue(Settle(@, IF outcome = "raised" THEN "raised" ELSE "returned"),
                       Call("createTask", "product", i[j], session[j]))]
  /\ UNCHANGED <<store, now, products, i, addedProducts, failedProducts, session,
                 createdAt, dropped, lastRead, widgetVars>>

\* createTask of the product's task settles (line 530); when it returns,
\* task.complete() is called (line 538)
CreateTask(j) ==
  /\ pc[j] = "createTask"
  /\ \/ /\ pc' = [pc EXCEPT ![j] = "complete"]
        /\ calls' = [calls EXCEPT ![j] =
                       Issue(Settle(@, "returned"),
                             Call("complete", "product", i[j], session[j]))]
        /\ UNCHANGED <<store, now, products, i, addedProducts, failedProducts,
                       translations, session, createdAt, dropped, lastRead, widgetVars>>
     \/ ProductFailed(j)

\* task.complete() settles (line 538)
Complete(j) ==
  /\ pc[j] = "complete"
  /\ \/ ProductAdded(j)
     \/ ProductFailed(j)

\* a terminal update reporting "failed" when no product was added
CompletedUnlessNoneAdded(j, cartUrl, result) ==
  /\ store' = onProgress(store, j,
                [status |-> IF addedProducts[j] = <<>> /\ failedProducts[j] # <<>>
                              THEN "failed" ELSE "completed",
                 added_products |-> addedProducts[j],
                 failed_products |-> failedProducts[j], cart_url |-> cartUrl,
                 current_product |-> NULL])
  /\ pc' = [pc EXCEPT ![j] = "done"]
  /\ calls' = [calls EXCEPT ![j] = Settle(@, result)]
  /\ UNCHANGED <<now, products, i, addedProducts, failedProducts, translations,
                 session, createdAt, lastRead, widgetVars>>
  /\ Publishing(j)

\* a terminal update that falls back to the shop's start page when the cart
\* task gave no url
CompletedWithStartUrl(j, cartUrl, result) ==
  /\ store' = onProgress(store, j,
                [status |-> "completed", added_products |-> addedProducts[j],
                 failed_products |-> failedProducts[j],
                 cart_url |-> IF cartUrl = NULL THEN "https://www.carrefour.fr"
                              ELSE cartUrl,
                 current_product |-> NULL])
  /\ pc' = [pc EXCEPT ![j] = "done"]
  /\ calls' = [calls EXCEPT ![j] = Settle(@, result)]
  /\ UNCHANGED <<now, products, i, addedProducts, failedProducts, translations,
                 session, createdAt, lastRead, widgetVars>>
  /\ Publishing(j)

\* lines 577-590: the terminal update, after the cart task settled with result
Completed(j, cartUrl, result) ==
  /\ store' = onProgress(store, j,
                [status |-> "completed", added_products |-> addedProducts[j],
                 failed_products |-> failedProducts[j], cart_url |-> cartUrl,
                 current_product |-> NULL])
  /\ pc' = [pc EXCEPT ![j] = "done"]
  /\ calls' = [calls EXCEPT ![j] = Settle(@, result)]
  /\ UNCHANGED <<now, products, i, addedProducts, failedProducts, translations,
                 session, createdAt, lastRead, widgetVars>>
  /\ Publishing(j)

\* createTask of the cart task settles (line 561); when it returns,
\* goToCartTask.complete() is called (line 567)
CartCreateTask(j) ==
  /\ pc[j] = "cartCreateTask"
  /\ \/ /\ pc' = [pc EXCEPT ![j] = "cartComplete"]
        /\ calls' = [calls EXCEPT ![j] =
                       Issue(Settle(@, "returned"),
                             Call("complete", "cart", -1, session[j]))]
        /\ UNCHANGED <<store, now, products, i, addedProducts, failedProducts,
                       translations, session, createdAt, dropped, lastRead, widgetVars>>
     \/ Completed(j, NULL, "raised")

\* goToCartTask.complete() settles (line 567): it returns with a url in its
\* last step, returns without one, or raises (lines 568-575)
CartComplete(j) ==
  /\ pc[j] = "cartComplete"
  /\ \/ Completed(j, CartPageUrl, "returned")
     \/ Completed(j, NULL, "returned")
     \/ Completed(j, NULL, "raised")

\* ------------------------------------------------------ show-plan widget
\* useState<string | null>(null) of fillCartJobId
NoJobId == -1

serverVars == <<store, now, orchVars, lastRead>>

\* the polling effect runs for the state it is given: it returns at once
\* unless a job id is set and the widget is shopping, else it arms the
\* initial timer; the clean-up of the previous run has cancelled its poll
\* in flight and cleared its timers
PollingEffect(status, jobId) ==
  /\ pollTimeout' = IF jobId # NoJobId /\ status = "shopping"
                      THEN POLL_INITIAL_DELAY_MS ELSE 0
  /\ polling' = FALSE
  /\ stalePolls' = stalePolls + (IF polling THEN 1 ELSE 0)

\* handleLooksPerfect up to its await of fill-cart
LooksPerfect ==
  /\ fillCartStatus = "idle" /\ ~starting
  /\ fillCartStatus' = "shopping"
  /\ fillCartJobId' = NoJobId
  /\ starting' = TRUE
  /\ PollingEffect("shopping", NoJobId)
  /\ UNCHANGED <<polls, observed, serverVars>>

\* what the fill-cart call gives handleLooksPerfect: a job id, a result in
\* the legacy shape, neither, or an exception
FillCartCallOutcomes == {"jobId", "legacy", "nothing", "thrown"}

\* the fill-cart call settles and handleLooksPerfect runs to its end
LooksPerfectSettles(outcome) ==
  /\ starting
  /\ starting' = FALSE
  /\ fillCartStatus' = (IF outcome = "jobId" THEN fillCartStatus
                        ELSE IF outcome = "legacy" THEN "done" ELSE "error")
  /\ fillCartJobId' = (IF outcome = "jobId" THEN 1 ELSE fillCartJobId)
  /\ PollingEffect(fillCartStatus', fillCartJobId')
  /\ UNCHANGED <<polls, observed, serverVars>>

\* handleFillCartTryAgain, offered in state error
FillCartTryAgain ==
  /\ fillCartStatus = "error"
  /\ fillCartStatus' = "idle"
  /\ fillCartJobId' = NoJobId
  /\ PollingEffect("idle", NoJobId)
  /\ UNCHANGED <<starting, polls, observed, serverVars>>

\* the pending timer fires: pollOnce runs up to its await of
\* check_fill_cart_progress
TimerFires ==
  /\ pollTimeout # 0
  /\ polls < MaxPolls
  /\ pollTimeout' = 0
  /\ polling' = TRUE
  /\ polls' = polls + 1
  /\ UNCHANGED <<fillCartStatus, fillCartJobId, starting, stalePolls, observed,
                 serverVars>>

\* what a poll observes: the status of the payload, no payload in the
\* result, or an exception of the call
PollOutcomes ==
  {"started", "running", "completed", "failed", "not_found", "unparsable", "thrown"}

\* a poll that gives up when the call throws
PollSettlesGivingUpOnThrow(outcome) ==
  /\ polling
  /\ observed' = outcome
  /\ IF outcome \in {"completed", "failed"}
       THEN /\ fillCartStatus' = "done"
            /\ fillCartJobId' = NoJobId
            /\ pollTimeout' = 0
       ELSE /\ UNCHANGED <<fillCartStatus, fillCartJobId>>
            /\ pollTimeout' = IF outcome = "thrown" THEN 0 ELSE POLL_RETRY_DELAY_MS
  /\ polling' = FALSE
  /\ UNCHANGED <<starting, stalePolls, polls, serverVars>>

\* the call of pollOnce settles in the effect run that made it (lines
\* 156-234): a terminal status ends the polling, anything else arms the
\* retry timer
PollSettles(outcome) ==
  /\ polling
  /\ observed' = outcome
  /\ IF outcome \in {"completed", "failed"}
       THEN /\ fillCartStatus' = "done"
            /\ fillCartJobId' = NoJobId
            /\ pollTimeout' = 0
       ELSE /\ UNCHANGED <<fillCartStatus, fillCartJobId>>
            /\ pollTimeout' = POLL_RETRY_DELAY_MS
  /\ polling' = FALSE
  /\ UNCHANGED <<starting, stalePolls, polls, serverVars>>

\* a dependency of the effect (sendFollowUp, callProgressToolAsync) changes
\* identity on a render: the effect is cleaned up and runs again
EffectRerun ==
  /\ fillCartJobId # NoJobId /\ fillCartStatus = "shopping"
  /\ pollTimeout # POLL_INITIAL_DELAY_MS
  /\ PollingEffect(fillCartStatus, fillCartJobId)
  /\ UNCHANGED <<fillCartStatus, fillCartJobId, starting, polls, observed, serverVars>>

\* the call of a cancelled effect run settles: pollOnce returns at once
StalePollSettles ==
  /\ stalePolls > 0
  /\ stalePolls' = stalePolls - 1
  /\ UNCHANGED <<fillCartStatus, fillCartJobId, starting, pollTimeout, polling, polls,
                 observed, serverVars>>

\* ------------------------------------------------------------ specification
Init ==
  /\ store = <<>>
  /\ now = 0
  /\ pc = [j \in JobIds |-> "idle"]
  /\ products = [j \in JobIds |-> <<>>]
  /\ i = [j \in JobIds |-> 0]
  /\ addedProducts = [j \in JobIds |-> <<>>]
  /\ failedProducts = [j \in JobIds |-> <<>>]
  /\ translations = [j \in JobIds |-> <<>>]
  /\ session = [j \in JobIds |-> NoSession]
  /\ calls = [j \in JobIds |-> <<>>]
  /\ createdAt = [j \in JobIds |-> 0]
  /\ dropped = [j \in JobIds |-> FALSE]
  /\ lastRead = <<>>
  /\ fillCartStatus = "idle"
  /\ fillCartJobId = NoJobId
  /\ starting = FALSE
  /\ pollTimeout = 0
  /\ polling = FALSE
  /\ stalePolls = 0
  /\ polls = 0
  /\ observed = "none"

TranslateOutcomes == {"translated", "fallback", "raised"}

\* a step of the orchestrator of job j
Orchestrator(j) ==
  \/ CreateSession(j)
  \/ SetupCreateTask(j)
  \/ SetupComplete(j)
  \/ \E outcome \in TranslateOutcomes : Translate(j, outcome)
  \/ CreateTask(j)
  \/ Complete(j)
  \/ CartCreateTask(j)
  \/ CartComplete(j)

\* one fill-cart call, its orchestrator, progress reads and the clock
Next ==
  \/ \E ps \in ProductLists : Created = {} /\ FillCart(ps)
  \/ \E id \in JobIds \cup {UnknownJobId} : CheckFillCartProgress(id)
  \/ \E d \in {1, FILL_CART_PROGRESS_TTL_MS} : Tick(d)
  \/ \E j \in JobIds : Orchestrator(j)

Spec == Init /\ [][Next]_vars

\* every collaborator call eventually returns or raises: the orchestrator of a
\* job suspended on a call eventually takes its next step
SpecSettling == Spec /\ \A j \in JobIds : WF_vars(Orchestrator(j))

\* MaxJobs fill-cart calls and their orchestrators, interleaved with one
\* another, with progress requests over HTTP and with the clock
NextJobs ==
  \/ \E ps \in ProductLists : Len(ps) <= MaxLenJobs /\ FillCart(ps)
  \/ \E id \in JobIds \cup {UnknownJobId} : HttpGetProgress(id)
  \/ \E d \in {1, FILL_CART_PROGRESS_TTL_MS} : Tick(d)
  \/ \E j \in JobIds : Orchestrator(j)

SpecJobs == Init /\ [][NextJobs]_vars

\* the show-plan widget alone, its calls answered in every possible way
NextWidget ==
  \/ LooksPerfect
  \/ \E outcome \in FillCartCallOutcomes : LooksPerfectSettles(outcome)
  \/ FillCartTryAgain
  \/ TimerFires
  \/ \E outcome \in PollOutcomes : PollSettles(outcome)
  \/ EffectRerun
  \/ StalePollSettles

SpecWidget == Init /\ [][NextWidget]_vars

\* ------------------------------------------------------------------ claims
IsPrefix(a, b) == Len(a) <= Len(b) /\ a = SubSeq(b, 1, Len(a))

Range(seq) == {seq[n] : n \in DOMAIN seq}

Count(p, seq) == Cardinality({n \in DOMAIN seq : seq[n] = p})

NoDuplicates(seq) == \A m, n \in DOMAIN seq : seq[m] = seq[n] => m = n

Terminal == {"completed", "failed"}

\* the collaborator's answer for the task of the product at index k: "raised"
\* when its createTask or its complete() raised, "returned" when complete()
\* returned, "none" while neither happened
TaskOutcome(j, k) ==
  IF \E n \in DOMAIN calls[j] :
       /\ calls[j][n].task = "product" /\ calls[j][n].index = k
       /\ calls[j][n].op \in {"createTask", "complete"}
       /\ calls[j][n].result = "raised"
    THEN "raised"
  ELSE IF \E n \in DOMAIN calls[j] :
       /\ calls[j][n].task = "product" /\ calls[j][n].index = k
       /\ calls[j][n].op = "complete" /\ calls[j][n].result = "returned"
    THEN "returned"
  ELSE "none"

\* the input products from index k on whose task ended with outcome r, in
\* input order
RECURSIVE ProductsWithOutcome(_, _, _)
ProductsWithOutcome(j, k, r) ==
  IF k >= Len(products[j]) THEN <<>>
  ELSE (IF TaskOutcome(j, k) = r THEN <<products[j][k + 1]>> ELSE <<>>)
         \o ProductsWithOutcome(j, k + 1, r)

\* createSession of job j raised
SessionRaised(j) == calls[j] # <<>> /\ calls[j][1].result = "raised"

\* the status changes of one record that move forward; a job with no product
\* goes from started to completed without a running update
ForwardMoves ==
  {<<"started", "running">>, <<"running", "completed">>,
   <<"started", "completed">>, <<"started", "failed">>}

\* C1: in every step the stored status of a job stays as it is or moves
\* forward (started -> running -> completed, or started -> failed): never
\* backwards, never back to started, never from running to failed; and no
\* record reappears as started after the job's creation.
C1_StatusMovesForward ==
  [][\A j \in JobIds :
       /\ (j \in DOMAIN store /\ j \in DOMAIN store')
            => \/ store'[j].status = store[j].status
               \/ <<store[j].status, store'[j].status>> \in ForwardMoves
       /\ (j \in Created /\ j \notin DOMAIN store) => j \notin DOMAIN store']_vars

C1_Witness ==
  /\ 1 \in DOMAIN store
  /\ store[1].status = "completed"
  /\ Len(products[1]) = 2
  /\ store[1].failed_products # <<>>

\* C2: a record whose status is completed or failed is left as it is by every
\* step (all seven fields), or is removed, and removed only when expired.
C2_TerminalImmutable ==
  [][\A j \in JobIds :
       (j \in DOMAIN store /\ store[j].status \in Terminal)
         => IF j \in DOMAIN store' THEN store'[j] = store[j]
            ELSE Expired(store[j], now)]_vars

C2_Witness ==
  /\ 1 \in DOMAIN store
  /\ store[1].status = "completed"
  /\ 1 \in DOMAIN lastRead
  /\ lastRead[1].status = "completed"
  /\ now > store[1].updatedAt

\* C3 as stated: both arrays hold only input products, neither holds a product
\* twice, and no product is in both.
C3_Original ==
  \A j \in DOMAIN store :
    LET a == store[j].added_products
        f == store[j].failed_products
    IN /\ Range(a) \cup Range(f) \subseteq Range(products[j])
       /\ NoDuplicates(a)
       /\ NoDuplicates(f)
       /\ Range(a) \cap Range(f) = {}

\* C3 amended: both arrays hold only input products, and a product occurs in
\* the two arrays together at most as often as it occurs in the input list (so
\* for an input list without duplicates: no duplicates, and nothing in both).
C3_AtMostAsOftenAsInInput ==
  \A j \in DOMAIN store :
    LET a == store[j].added_products
        f == store[j].failed_products
    IN /\ Range(a) \cup Range(f) \subseteq Range(products[j])
       /\ \A p \in Products : Count(p, a) + Count(p, f) <= Count(p, products[j])

C3_Witness ==
  /\ 1 \in DOMAIN store
  /\ products[1] = <<Milk, Milk>>
  /\ store[1].added_products = <<Milk>>
  /\ store[1].failed_products = <<Milk>>

\* C4: when a read of a job follows an earlier read of it and both found the
\* job, the earlier added_products is a prefix of the later one, and likewise
\* failed_products.
C4_ArraysAppendOnly ==
  [][\A j \in JobIds :
       (/\ j \in DOMAIN lastRead /\ lastRead[j].status # "not_found"
        /\ j \in DOMAIN lastRead' /\ lastRead'[j].status # "not_found")
         => /\ IsPrefix(lastRead[j].added_products, lastRead'[j].added_products)
            /\ IsPrefix(lastRead[j].failed_products, lastRead'[j].failed_products)]_vars

\* a read showed one added product, the store has since grown to two
C4_Witness ==
  /\ 1 \in DOMAIN lastRead
  /\ 1 \in DOMAIN store
  /\ Len(lastRead[1].added_products) = 1
  /\ Len(store[1].added_products) = 2
  /\ ~Expired(store[1], now)

\* C5 as stated: a job whose session was created never becomes failed, and is
\* completed once its orchestrator has finished.
C5_OnlySessionFailureIsFatal ==
  \A j \in DOMAIN store :
    session[j] # NoSession
      => /\ store[j].status # "failed"
         /\ pc[j] = "done" => store[j].status = "completed"

\* C6: while no session exists the record stays started or failed with empty
\* arrays and no current product, and so does every read; once createSession
\* has raised, the orchestrator is finished, has issued no other call, and the
\* record is failed with an error.
C6_SessionFailure ==
  \A j \in Created :
    /\ session[j] = NoSession
         => /\ j \in DOMAIN store
                 => /\ store[j].status \in {"started", "failed"}
                    /\ store[j].added_products = <<>>
                    /\ store[j].failed_products = <<>>
                    /\ store[j].current_product = NULL
            /\ j \in DOMAIN lastRead
                 => /\ lastRead[j].status \in {"started", "failed", "not_found"}
                    /\ lastRead[j].current_product = NULL
                    /\ lastRead[j].added_products = <<>>
                    /\ lastRead[j].failed_products = <<>>
    /\ SessionRaised(j)
         => /\ pc[j] = "done"
            /\ Len(calls[j]) = 1
            /\ session[j] = NoSession
            /\ j \in DOMAIN store
                 => /\ store[j].status = "failed"
                    /\ store[j].error # NULL

C6_Witness ==
  /\ SessionRaised(1)
  /\ Len(products[1]) = 2
  /\ 1 \in DOMAIN lastRead
  /\ lastRead[1].status = "failed"

\* every product of a non-empty input list had its task raise
AllTasksRaised(j) ==
  /\ Len(products[j]) > 0
  /\ \A k \in 0..(Len(products[j]) - 1) : TaskOutcome(j, k) = "raised"

\* C7: when the task of every product of a non-empty list raised and the
\* orchestrator has finished, the record is completed with no error, no added
\* product and failed_products equal to the input list.
C7_AllFailedIsCompleted ==
  \A j \in DOMAIN store :
    (pc[j] = "done" /\ AllTasksRaised(j))
      => /\ store[j].status = "completed"
         /\ store[j].error = NULL
         /\ store[j].added_products = <<>>
         /\ store[j].failed_products = products[j]

C7_Witness ==
  /\ 1 \in DOMAIN store
  /\ pc[1] = "done"
  /\ AllTasksRaised(1)
  /\ products[1] = <<Milk, Eggs>>

\* C8: in a completed record added_products is the input products whose task
\* returned and failed_products the ones whose task raised, both in input
\* order, every task having returned or raised; so the lengths add up to the
\* length of the input list.
C8_EveryProductAccounted ==
  \A j \in DOMAIN store :
    store[j].status = "completed"
      => /\ \A k \in 0..(Len(products[j]) - 1) : TaskOutcome(j, k) # "none"
         /\ store[j].added_products = ProductsWithOutcome(j, 0, "returned")
         /\ store[j].failed_products = ProductsWithOutcome(j, 0, "raised")
         /\ Len(store[j].added_products) + Len(store[j].failed_products)
              = Len(products[j])

\* completed with one product added after its translation raised, and one
\* failed after its translation returned
C8_Witness ==
  /\ 1 \in DOMAIN store
  /\ store[1].status = "completed"
  /\ products[1] = <<Milk, Eggs>>
  /\ store[1].added_products = <<Milk>>
  /\ store[1].failed_products = <<Eggs>>
  /\ \E n \in DOMAIN calls[1] :
       calls[1][n].op = "translate" /\ calls[1][n].index = 0
         /\ calls[1][n].result = "raised"

\* C9: as long as no more than the retention window has passed since fill-cart
\* returned a job id, a read of it finds the job; a read that returned
\* not_found for it was made later than that.
C9_JobFoundAfterReturn ==
  \A j \in Created :
    /\ now - createdAt[j] <= FILL_CART_PROGRESS_TTL_MS => getFound(store, j, now)
    /\ (j \in DOMAIN lastRead /\ lastRead[j].status = "not_found")
         => now - createdAt[j] > FILL_CART_PROGRESS_TTL_MS

\* a read right after the return, and one at the end of the window
C9_Witness ==
  /\ 1 \in DOMAIN lastRead
  /\ lastRead[1].status = "started"
  /\ pc[1] = "createSession"
  /\ now - createdAt[1] = FILL_CART_PROGRESS_TTL_MS

\* C10: in the step in which fill-cart creates a job and returns, the stored
\* status of the job is started and none of its collaborator calls has
\* settled: the orchestrator is suspended on createSession.
C10_ReturnsBeforeAnyCall ==
  [][\A j \in JobIds :
       (pc[j] = "idle" /\ pc'[j] # "idle")
         => /\ j \in DOMAIN store'
            /\ store'[j].status = "started"
            /\ pc'[j] = "createSession"
            /\ \A n \in DOMAIN calls'[j] : calls'[j][n].result = "pending"]_vars

C10_Witness ==
  /\ pc[1] = "createSession"
  /\ 1 \in DOMAIN store
  /\ store[1].status = "started"
  /\ Len(products[1]) = 2

\* C11: no job with an empty product list is ever created: fill-cart rejects
\* the empty list before it inserts a record or launches an orchestrator.
C11_EmptyListCreatesNoJob ==
  \A j \in JobIds : products[j] = <<>> => j \notin Created /\ j \notin DOMAIN store

\* initialTask.complete() of job j returned
SetupReturned(j) ==
  \E n \in DOMAIN calls[j] :
    /\ calls[j][n].task = "setup" /\ calls[j][n].op = "complete"
    /\ calls[j][n].result = "returned"

\* the cart tasks job j asked for
CartAttempts(j) ==
  {n \in DOMAIN calls[j] : calls[j][n].task = "cart" /\ calls[j][n].op = "createTask"}

\* C12: a job with no product never issues a call for a product; once its
\* session and setup succeeded it has asked for exactly one cart task; its
\* record stays started until the orchestrator finishes, and is then
\* completed with both arrays empty.
C12_ZeroProducts ==
  \A j \in Created :
    products[j] = <<>> =>
      /\ \A n \in DOMAIN calls[j] : calls[j][n].task # "product"
      /\ SetupReturned(j) =>
           /\ Cardinality(CartAttempts(j)) = 1
           /\ j \in DOMAIN store =>
                /\ store[j].status = (IF pc[j] = "done" THEN "completed" ELSE "started")
                /\ store[j].added_products = <<>>
                /\ store[j].failed_products = <<>>

\* a finished job with no product, its cart task settled, its record completed
C12_Witness ==
  /\ 1 \in Created /\ products[1] = <<>> /\ SetupReturned(1)
  /\ pc[1] = "done" /\ 1 \in DOMAIN store
  /\ store[1].status = "completed"
  /\ calls[1][Len(calls[1])].task = "cart"

\* the snapshot of a check_fill_cart_progress step for id reports not_found
\* exactly when the store had no entry for id or one past the window
NotFoundIffAbsentOrExpired(id) ==
  lastRead'[id].status = "not_found"
    <=> \/ id \notin DOMAIN store
        \/ now - store[id].updatedAt > FILL_CART_PROGRESS_TTL_MS

\* C13 as stated: check_fill_cart_progress reports not_found exactly when
\* the job is absent or expired, and then with empty arrays and null
\* cart_url, error and current_product.
C13_Original ==
  [][\A id \in KnownIds :
       CheckFillCartProgress(id) =>
         /\ NotFoundIffAbsentOrExpired(id)
         /\ lastRead'[id].status = "not_found" =>
              /\ lastRead'[id].added_products = <<>>
              /\ lastRead'[id].failed_products = <<>>
              /\ lastRead'[id].cart_url = NULL
              /\ lastRead'[id].error = NULL
              /\ lastRead'[id].current_product = NULL]_vars

\* C13: check_fill_cart_progress reports not_found exactly when the job is
\* absent or expired, and then with empty arrays, null cart_url and
\* current_product, and the error text "Job not found or expired".
C13_NotFoundSnapshot ==
  [][\A id \in KnownIds :
       CheckFillCartProgress(id) =>
         /\ NotFoundIffAbsentOrExpired(id)
         /\ lastRead'[id].status = "not_found" =>
              /\ lastRead'[id].added_products = <<>>
              /\ lastRead'[id].failed_products = <<>>
              /\ lastRead'[id].cart_url = NULL
              /\ lastRead'[id].error = "Job not found or expired"
              /\ lastRead'[id].current_product = NULL]_vars

\* not_found was answered for an id never created and for an expired job
C13_Witness ==
  /\ UnknownJobId \in DOMAIN lastRead /\ lastRead[UnknownJobId].status = "not_found"
  /\ 1 \in Created /\ 1 \in DOMAIN lastRead /\ lastRead[1].status = "not_found"

\* C14: a read of a stored job more than FILL_CART_PROGRESS_TTL_MS after its
\* updatedAt answers not found and removes the entry, whatever its status;
\* a read at or before the window answers the stored record and keeps it.
C14_ExpiryOnRead ==
  [][\A id \in Created :
       (id \in DOMAIN store /\ CheckFillCartProgress(id)) =>
           IF now - store[id].updatedAt > FILL_CART_PROGRESS_TTL_MS
             THEN lastRead'[id] = NotFoundPayload /\ id \notin DOMAIN store'
             ELSE /\ lastRead'[id] = ProgressPayload(store[id])
                  /\ id \in DOMAIN store' /\ store'[id] = store[id]]_vars

\* a job that completed, was then read past its window and is gone
C14_Witness ==
  /\ 1 \in Created /\ pc[1] = "done" /\ ~dropped[1]
  /\ calls[1][Len(calls[1])].task = "cart"
  /\ 1 \notin DOMAIN store
  /\ 1 \in DOMAIN lastRead /\ lastRead[1] = NotFoundPayload

OrchestratorStep(j) == pc[j] \notin {"idle", "done"} /\ calls'[j] # calls[j]

\* C16: a step of an orchestrator whose job has no entry in the store leaves
\* the store as it is: its updates create no entry and change no other
\* job's record; the orchestrator goes on (the update raises nothing).
C16_UpdateOfAbsentJob ==
  [][\A j \in Created :
       (j \notin DOMAIN store /\ OrchestratorStep(j)) =>
         store' = store /\ pc'[j] # pc[j]]_vars

\* an update of job 1 was dropped while job 2 had a record
C16_Witness ==
  /\ dropped[1] /\ 1 \notin DOMAIN store
  /\ 2 \in Created /\ 2 \in DOMAIN store

\* the snapshots of two successive check_fill_cart_progress calls for id,
\* the first now and the second at time t, with no step in between
FirstSnapshot(id) == CheckPayload(store, id, now)
SecondSnapshot(id, t) == CheckPayload(getStore(store, id, now), id, t)

\* the record of id is within its retention window now and past it at time t
PassesWindow(id, t) ==
  /\ id \in DOMAIN store
  /\ now - store[id].updatedAt <= FILL_CART_PROGRESS_TTL_MS
  /\ t - store[id].updatedAt > FILL_CART_PROGRESS_TTL_MS

\* C17 as stated: two successive check_fill_cart_progress calls for the
\* same jobId with no orchestrator update between them, however much time
\* passes between them, return identical snapshots.
C17_Original ==
  \A id \in KnownIds : \A t \in ClockValues :
    t >= now => SecondSnapshot(id, t) = FirstSnapshot(id)

\* C17: two successive check_fill_cart_progress calls for the same jobId
\* with no orchestrator update between them return identical snapshots,
\* unless the record passes its retention window between the two calls.
C17_RepeatedReads ==
  \A id \in KnownIds : \A t \in ClockValues :
    (t >= now /\ ~PassesWindow(id, t)) => SecondSnapshot(id, t) = FirstSnapshot(id)

\* a running job was read and would be answered the same again, at the last
\* instant of its retention window
C17_Witness ==
  /\ 1 \in DOMAIN store /\ 1 \in DOMAIN lastRead
  /\ lastRead[1] = FirstSnapshot(1) /\ lastRead[1].status = "running"
  /\ now - store[1].updatedAt = FILL_CART_PROGRESS_TTL_MS

\* C18: a progress read of a job that is in the store and within its
\* retention window leaves the whole store unchanged, updatedAt included;
\* the only change any read makes to the store is the removal of the entry
\* it asked for, when that entry is past the window.
C18_ReadsLeaveStore ==
  [][\A id \in KnownIds :
       CheckFillCartProgress(id) =>
         /\ (/\ id \in DOMAIN store
             /\ now - store[id].updatedAt <= FILL_CART_PROGRESS_TTL_MS) => store' = store
         /\ \/ store' = store
            \/ /\ id \in DOMAIN store
               /\ now - store[id].updatedAt > FILL_CART_PROGRESS_TTL_MS
               /\ store' = MapDelete(store, id)]_vars

\* a completed job was read and its record still carries the instant of its
\* last update, a whole retention window ago
C18_Witness ==
  /\ 1 \in DOMAIN store /\ 1 \in DOMAIN lastRead
  /\ lastRead[1].status = "completed" /\ store[1].status = "completed"
  /\ now - store[1].updatedAt = FILL_CART_PROGRESS_TTL_MS

\* C19: whatever the store holds and whichever id is asked for, the HTTP
\* endpoint answers 404 with {error: "Job not found or expired"} exactly
\* when check_fill_cart_progress answers not_found, and otherwise sends the
\* six fields check_fill_cart_progress returns, with the same values.
C19_HttpAgreesWithTool ==
  \A id \in KnownIds :
    LET response == HttpResponse(store, id, now)
        payload == CheckPayload(store, id, now)
    IN /\ response.code = 404 <=> payload.status = "not_found"
       /\ response.code = 404 => response.body = [error |-> "Job not found or expired"]
       /\ response.code # 404 =>
            /\ response.code = 200
            /\ DOMAIN response.body = DOMAIN payload
            /\ \A f \in DOMAIN payload : response.body[f] = payload[f]

\* the tool answered the record of a failed job, as the endpoint would now,
\* and not_found for an id the endpoint would answer 404 for
C19_Witness ==
  /\ 1 \in DOMAIN store /\ 1 \in DOMAIN lastRead
  /\ lastRead[1].status = "failed" /\ lastRead[1].error # NULL
  /\ HttpResponse(store, 1, now) = [code |-> 200, body |-> lastRead[1]]
  /\ UnknownJobId \in DOMAIN lastRead
  /\ HttpResponse(store, UnknownJobId, now).code = 404

\* C20: with several jobs running, a step of the orchestrator of job a
\* leaves the record of every other job b in the store exactly as it was:
\* status, arrays, cart_url, error, current_product and updatedAt.
C20_UpdatesStayInOwnRecord ==
  [][\A a \in Created :
       OrchestratorStep(a) =>
         \A b \in DOMAIN store \ {a} : b \in DOMAIN store' /\ store'[b] = store[b]]_vars

\* two jobs under way at once, each with its own product in its own record
C20_Witness ==
  /\ DOMAIN store = {1, 2}
  /\ pc[1] \notin {"idle", "done"} /\ pc[2] \notin {"idle", "done"}
  /\ store[1].status = "running" /\ store[2].status = "running"
  /\ store[1].current_product # store[2].current_product

\* C21: when every collaborator call eventually settles, the orchestrator of
\* every started job eventually finishes, whichever calls raised, and the
\* record of the job, unless a read evicted it meanwhile, is then completed
\* or failed.
C21_EveryJobTerminates ==
  \A j \in JobIds :
    (j \in Created) ~>
      (pc[j] = "done" /\ (j \in DOMAIN store => store[j].status \in Terminal))

\* a finished job one of whose calls raised, its record completed or failed
C21_Witness ==
  /\ pc[1] = "done" /\ 1 \in DOMAIN store /\ store[1].status \in Terminal
  /\ \E n \in DOMAIN calls[1] : calls[1][n].result = "raised"

\* the last call job j issued
LastCall(j) == calls[j][Len(calls[j])]

\* goToCartTask.complete() of job j returned
CartReturned(j) ==
  \E n \in DOMAIN calls[j] :
    /\ calls[j][n].task = "cart" /\ calls[j][n].op = "complete"
    /\ calls[j][n].result = "returned"

\* C22: a record has a cart_url only when its status is completed and the
\* cart task's complete() returned, and the url is then the one of the last
\* step; once the cart task has settled the record is completed, with
\* cart_url null when the task raised.
C22_CartUrl ==
  \A j \in DOMAIN store :
    /\ store[j].cart_url # NULL =>
         /\ store[j].status = "completed"
         /\ CartReturned(j)
         /\ store[j].cart_url = CartPageUrl
    /\ (pc[j] = "done" /\ LastCall(j).task = "cart") =>
         /\ store[j].status = "completed"
         /\ LastCall(j).result = "raised" => store[j].cart_url = NULL

\* two products added, then the cart task raised: completed without a url
C22_Witness ==
  /\ 1 \in DOMAIN store /\ pc[1] = "done"
  /\ LastCall(1).task = "cart" /\ LastCall(1).op = "complete"
  /\ LastCall(1).result = "raised"
  /\ store[1].status = "completed" /\ store[1].cart_url = NULL
  /\ Len(store[1].added_products) = 2

\* C23: in every record, error is non-null exactly when status is failed.
C23_ErrorIffFailed ==
  \A j \in DOMAIN store : store[j].error # NULL <=> store[j].status = "failed"

\* a job failed by its setup task, with the reason in its record
C23_Witness ==
  /\ 1 \in DOMAIN store /\ store[1].status = "failed"
  /\ store[1].error = TaskErrorMessage
  /\ LastCall(1).task = "setup"

\* C24: in every record with status running, with k the number of products
\* in its two arrays, current_product is the name of the input product at
\* position k, or null when k is the length of the input; the arrays hold
\* the outcomes of the products before position k, in input order.
C24_CurrentProduct ==
  \A j \in DOMAIN store :
    store[j].status = "running" =>
      LET k == Len(store[j].added_products) + Len(store[j].failed_products)
      IN /\ k <= Len(products[j])
         /\ store[j].current_product =
              (IF k < Len(products[j]) THEN products[j][k + 1].name ELSE NULL)
         /\ \A n \in 0..(Len(products[j]) - 1) : n >= k <=> TaskOutcome(j, n) = "none"
         /\ store[j].added_products = ProductsWithOutcome(j, 0, "returned")
         /\ store[j].failed_products = ProductsWithOutcome(j, 0, "raised")

\* a poll taken after the first of two different products was added and
\* before the second settled
C24_Witness ==
  /\ 1 \in DOMAIN store /\ 1 \in DOMAIN lastRead
  /\ Len(products[1]) = 2 /\ products[1][1] # products[1][2]
  /\ pc[1] = "complete" /\ i[1] = 1
  /\ lastRead[1] = ProgressPayload(store[1])
  /\ lastRead[1].status = "running"
  /\ lastRead[1].current_product = products[1][2].name
  /\ lastRead[1].added_products = <<products[1][1]>>
  /\ lastRead[1].failed_products = <<>>

\* the fields of record new that differ from record old
Changed(old, new) == {f \in Fields : new[f] # old[f]}

\* C25: a step of an orchestrator whose job has a record changes only the
\* fields its updates name, sets them to the values passed (the arrays to
\* the arrays passed, whole) and sets updatedAt to the time of the update;
\* a step that publishes nothing leaves the record as it is.
C25_UpdateMerges ==
  [][\A j \in DOMAIN store :
       OrchestratorStep(j) =>
         /\ j \in DOMAIN store'
         /\ LET old == store[j]
                new == store'[j]
                raised == calls'[j][Len(calls[j])].result = "raised"
            IN \/ \* no update
                  /\ \/ pc[j] \in {"createSession", "setupCreateTask", "createTask",
                                    "cartCreateTask"} /\ ~raised
                     \/ pc[j] = "translate"
                     \/ pc[j] = "setupComplete" /\ ~raised /\ products[j] = <<>>
                  /\ new = old
               \/ \* the failed update: status, error, current_product
                  /\ pc[j] \in {"createSession", "setupCreateTask", "setupComplete"}
                  /\ raised
                  /\ Changed(old, new) \subseteq
                       {"status", "error", "current_product", "updatedAt"}
                  /\ new.status = "failed" /\ new.error # NULL
                  /\ new.current_product = NULL /\ new.updatedAt = now
               \/ \* the running update: status, current_product
                  /\ pc[j] = "setupComplete" /\ ~raised /\ products[j] # <<>>
                  /\ Changed(old, new) \subseteq {"status", "current_product", "updatedAt"}
                  /\ new.status = "running"
                  /\ new.current_product = products[j][1].name
                  /\ new.updatedAt = now
               \/ \* the per-item update (arrays, current_product), followed by
                  \* the running update when a product is left
                  /\ pc[j] \in {"createTask", "complete"}
                  /\ pc'[j] \in {"translate", "cartCreateTask"}
                  /\ Changed(old, new) \subseteq
                       {"added_products", "failed_products", "current_product",
                        "updatedAt"}
                  /\ new.added_products = addedProducts'[j]
                  /\ new.failed_products = failedProducts'[j]
                  /\ new.updatedAt = now
               \/ \* the completed update: all but error
                  /\ pc[j] \in {"cartCreateTask", "cartComplete"}
                  /\ pc'[j] = "done"
                  /\ Changed(old, new) \subseteq Fields \ {"error"}
                  /\ new.status = "completed"
                  /\ new.added_products = addedProducts[j]
                  /\ new.failed_products = failedProducts[j]
                  /\ new.current_product = NULL /\ new.updatedAt = now]_vars

\* the second of two products was added a millisecond after the first: the
\* record holds the two, once each, and the time of the last update
C25_Witness ==
  /\ 1 \in DOMAIN store /\ pc[1] = "cartCreateTask"
  /\ Len(products[1]) = 2
  /\ store[1].added_products = products[1]
  /\ store[1].status = "running" /\ store[1].cart_url = NULL
  /\ store[1].updatedAt = 1 /\ now = 1

\* the place of a call in the order of fillShoppingCart: the session, the
\* setup task, the products in input order, the cart task; within a task,
\* the translation, createTask, complete()
CallRank(j, call) ==
  LET phase == IF call.op = "createSession" THEN 0
               ELSE IF call.task = "setup" THEN 1
               ELSE IF call.task = "product" THEN 2 + call.index
               ELSE 2 + Len(products[j])
      step == IF call.op = "translate" THEN 0
              ELSE IF call.op = "createTask" THEN 1
              ELSE 2
  IN 3 * phase + step

\* the call issued before call n was the one the code awaits just before it
FollowsItsPredecessor(j, n) ==
  LET call == calls[j][n]
      prev == calls[j][n - 1]
  IN IF call.op = "complete"
       THEN /\ prev.op = "createTask" /\ prev.task = call.task
            /\ prev.index = call.index /\ prev.result = "returned"
     ELSE IF call.op = "translate"
       THEN IF call.index = 0
              THEN prev.task = "setup" /\ prev.op = "complete" /\ prev.result = "returned"
              ELSE /\ prev.task = "product" /\ prev.index = call.index - 1
                   /\ prev.op \in {"createTask", "complete"}
     ELSE IF call.task = "product"
       THEN prev.op = "translate" /\ prev.index = call.index
     ELSE IF call.task = "setup"
       THEN prev.op = "createSession" /\ prev.result = "returned"
     ELSE IF products[j] = <<>>
       THEN prev.task = "setup" /\ prev.op = "complete" /\ prev.result = "returned"
     ELSE /\ prev.task = "product" /\ prev.index = Len(products[j]) - 1
          /\ prev.op \in {"createTask", "complete"}

\* C26: the calls of a job are issued one at a time (every call but the
\* last has settled), in the order session, setup task, then product by
\* product the translation and the task, then the cart task, each at most
\* once and each right after the call the code awaits before it; a job
\* that completed asked for exactly one cart task.
C26_OneCallAtATimeInOrder ==
  \A j \in Created :
    /\ calls[j][1].op = "createSession"
    /\ \A n \in DOMAIN calls[j] :
         /\ n < Len(calls[j]) => calls[j][n].result # "pending"
         /\ n > 1 =>
              /\ calls[j][n - 1].result # "pending"
              /\ CallRank(j, calls[j][n - 1]) < CallRank(j, calls[j][n])
              /\ FollowsItsPredecessor(j, n)
         /\ calls[j][n].task = "product" => calls[j][n].index < Len(products[j])
    /\ pc[j] # "done" <=> LastCall(j).result = "pending"
    /\ (pc[j] = "done" /\ LastCall(j).task = "cart") => Cardinality(CartAttempts(j)) = 1

\* the task of the second product is running; the task of the first one
\* raised before its translation was asked for
C26_Witness ==
  /\ 1 \in Created /\ Len(calls[1]) = 8
  /\ calls[1][5].op = "createTask" /\ calls[1][5].index = 0
  /\ calls[1][5].result = "raised"
  /\ calls[1][6].op = "translate" /\ calls[1][6].index = 1
  /\ calls[1][8].op = "complete" /\ calls[1][8].index = 1
  /\ calls[1][8].result = "pending"

\* the calls of job j that run an automation task
TaskCalls(j) == {n \in DOMAIN calls[j] : calls[j][n].op \in {"createTask", "complete"}}

\* C27: every job asks for one session, once; each of its automation tasks
\* (setup, per product, cart) is bound to the session it was given, and to
\* no session given to another job.
C27_OneSessionPerJob ==
  \A j \in Created :
    /\ Cardinality({n \in DOMAIN calls[j] : calls[j][n].op = "createSession"}) = 1
    /\ \A n \in TaskCalls(j) :
         /\ session[j] # NoSession
         /\ calls[j][n].sessionId = session[j]
         /\ \A other \in Created \ {j} : calls[j][n].sessionId # session[other]

\* two jobs at once, each running a product task in its own session
C27_Witness ==
  /\ pc[1] = "complete" /\ pc[2] = "complete"
  /\ session[1] # NoSession /\ session[2] # NoSession
  /\ session[1] # session[2]
  /\ LastCall(1).sessionId = session[1] /\ LastCall(2).sessionId = session[2]

\* C28: in every record, current_product is null when status is started,
\* completed or failed; a record with a current_product is running.
C28_CurrentProductOnlyWhenRunning ==
  \A j \in DOMAIN store :
    /\ store[j].status \in {"started", "completed", "failed"} =>
         store[j].current_product = NULL
    /\ store[j].current_product # NULL => store[j].status = "running"

\* a poller saw the job running on a product; the job has completed since
\* and its record names none
C28_Witness ==
  /\ 1 \in DOMAIN store /\ 1 \in DOMAIN lastRead
  /\ lastRead[1].status = "running" /\ lastRead[1].current_product # NULL
  /\ store[1].status = "completed" /\ store[1].current_product = NULL

\* C29: an id whose last progress read answered not_found has no record,
\* whatever its orchestrator has published since, so that a read of it now,
\* by the tool or over HTTP, answers not found again.
C29_NotFoundIsPermanent ==
  \A id \in DOMAIN lastRead :
    lastRead[id].status = "not_found" =>
      /\ id \notin DOMAIN store
      /\ CheckPayload(store, id, now) = NotFoundPayload
      /\ HttpResponse(store, id, now).code = 404

\* a job answered not_found whose orchestrator went on to the cart task and
\* published into the void, and an id never created answered not_found
C29_Witness ==
  /\ 1 \in Created /\ 1 \in DOMAIN lastRead /\ lastRead[1].status = "not_found"
  /\ pc[1] = "done" /\ dropped[1] /\ LastCall(1).task = "cart"
  /\ UnknownJobId \in DOMAIN lastRead

\* a poll of the current effect run settles in this step
PollSettlesNow == polling /\ ~polling' /\ stalePolls' = stalePolls

\* the widget is shopping with a job id set
ShoppingForJob == fillCartStatus = "shopping" /\ fillCartJobId # NoJobId

====
